---- MODULE Spec2Model ----
(***************************************************************************)
(* Model of src/cli/local-ai.py: the streaming generator generate_text and *)
(* the interactive loop interactive_chat with its conversation history.    *)
(*                                                                         *)
(* A text is a sequence of tokens (short strings); "+" on Python strings   *)
(* is \o.  A backend line is a record [kind, text]:                        *)
(*   empty    b""                       (skipped by "if line:")            *)
(*   resp     a JSON object whose "response" is the text                   *)
(*   respnum  a JSON object whose "response" is not a string               *)
(*   noresp   a JSON object without "response"                             *)
(*   badjson  bytes on which json.loads raises json.JSONDecodeError        *)
(*   badutf8  bytes on which json.loads raises UnicodeDecodeError          *)
(*   scalar   valid JSON that is a number/true/false/null, on which        *)
(*            '"response" in data' raises TypeError                        *)
(***************************************************************************)
EXTENDS Integers, Sequences, FiniteSets, TLC

VARIABLES
    conversation_history,  \* list of {"human", "assistant"} turns (line 177)
    pc,                    \* loop position: "input", "stream", "done"
    user_input,            \* the line read by input() (line 181)
    context,               \* the context built for the current prompt (193)
    full_response,         \* the reply accumulated so far (199, 203)
    gpc,                   \* position of the generate_text generator
    full_prompt,           \* the prompt sent by the last requests.post (32)
    nreq,                  \* number of requests.post calls issued so far
    connected,             \* requests.post returned a response (line 35)
    received,              \* lines iter_lines() handed to the current call
    yielded,               \* chunks the current generate_text call yielded
    last,                  \* what the loop printed last
    event                  \* what the user or the backend did in the last step

vars == <<conversation_history, pc, user_input, context, full_response, gpc,
          full_prompt, nreq, connected, received, yielded, last, event>>

----------------------------------------------------------------------------
(* Bounds of the model *)

MaxRequests == 2

MaxLines == 2

MaxCtxRequests == 8

(* conversation_history[-5:] *)
KeepLast == 5

----------------------------------------------------------------------------
(* Texts *)

(* min(a, b) and max(a, b) *)
Min(a, b) == IF a < b THEN a ELSE b

Max(a, b) == IF a > b THEN a ELSE b

LowerTok(t) ==
    CASE t = "EXIT" -> "exit"
      [] t = "Clear" -> "clear"
      [] OTHER -> t

(* str.lower() *)
Lower(s) == [i \in DOMAIN s |-> LowerTok(s[i])]

RECURSIVE Join(_, _)
(* sep.join(parts) *)
Join(sep, parts) ==
    IF parts = <<>> THEN <<>>
    ELSE IF Len(parts) = 1 THEN parts[1]
    ELSE parts[1] \o sep \o Join(sep, Tail(parts))

(* lst[:k] where lst[-k:] was meant *)
LastSliceFirst(lst, k) == SubSeq(lst, 1, Min(k, Len(lst)))

(* lst[-k:] *)
LastSlice(lst, k) == SubSeq(lst, Max(1, Len(lst) - k + 1), Len(lst))

(* f"Human: {msg['human']}\nAssistant: {msg['assistant']}" *)
RenderTurn(msg) ==
    <<"Human: ">> \o msg.human \o <<"\nAssistant: ">> \o msg.assistant

(* The context of lines 193-196. *)
BuildContext(history) ==
    LET recent == LastSlice(history, KeepLast)
    IN  Join(<<"\n">>, [i \in DOMAIN recent |-> RenderTurn(recent[i])])

(* full_prompt of line 32 *)
FullPrompt(prompt, ctx) ==
    IF ctx # <<>> THEN ctx \o <<"\n\n">> \o prompt ELSE prompt

(* The two chunks of the ConnectionError handler (lines 57, 58). *)
DiagConn1 == <<"X Ollama sunucusu calismiyor!\n">>

DiagConn2 == <<"Terminal'de calistir: ollama serve\n">>

(* The chunk of the generic handler (line 60). *)
DiagErr == <<"X Error: ", "str(e)", "\n">>

----------------------------------------------------------------------------
(* The environment: what the user types and what the backend sends *)

Line(k, t) == [kind |-> k, text |-> t]

Lines ==
    { Line("resp", <<"x">>), Line("resp", <<"y">>), Line("respnum", <<"#7">>),
      Line("noresp", <<>>), Line("empty", <<>>), Line("badjson", <<>>),
      Line("badutf8", <<>>), Line("scalar", <<>>) }

Prompts == { <<"a">> }

CtxLines == { Line("resp", <<"x">>) }

CtxPrompts == { <<"a">>, <<"b">> }

ExitWords == { <<"exit">>, <<"EXIT">> }

ClearWords == { <<"clear">>, <<"Clear">> }

(* The rich environment of Spec and the long-session environment of        *)
(* SpecCtx, whose backend answers a request with one record at most.       *)
Env == [prompts |-> Prompts, lines |-> Lines, maxLines |-> MaxLines,
        maxReq |-> MaxRequests]

CtxEnv == [prompts |-> CtxPrompts, lines |-> CtxLines, maxLines |-> 1,
           maxReq |-> MaxCtxRequests]

----------------------------------------------------------------------------
Init ==
    /\ conversation_history = <<>>
    /\ pc = "input"
    /\ user_input = <<>>
    /\ context = <<>>
    /\ full_response = <<>>
    /\ gpc = "none"
    /\ full_prompt = <<>>
    /\ nreq = 0
    /\ connected = FALSE
    /\ received = <<>>
    /\ yielded = <<>>
    /\ last = "banner"
    /\ event = "start"

(* The state of one generate_text call: its position, its locals and the   *)
(* record of what went in and out of it.                                   *)
genvars == <<gpc, full_prompt, connected, received, yielded>>

(* The generator object has returned, or is dropped unfinished: its frame  *)
(* and locals are gone.                                                    *)
Discard ==
    /\ gpc' = "closed"
    /\ full_prompt' = <<>>
    /\ connected' = FALSE
    /\ received' = <<>>
    /\ yielded' = <<>>

(* What the user may type at the prompt. *)
Typed(env) == env.prompts \cup ExitWords \cup ClearWords

(* A chunk that is a str; "#7" stands for a JSON number. *)
IsStr(chunk) == chunk # <<"#7">>

(* Lines 183-185: the exit command. *)
ReadExit(env) ==
    /\ pc = "input"
    /\ \E i \in Typed(env) :
          /\ Lower(i) = <<"exit">>
          /\ user_input' = i
    /\ pc' = "done"
    /\ last' = "goodbye"
    /\ event' = "typed"
    /\ UNCHANGED <<conversation_history, context, full_response, gpc,
                   full_prompt, nreq, connected, received, yielded>>

(* The clear command leaving the stored turns in place. *)
ReadClearKeeps(env) ==
    /\ pc = "input"
    /\ \E i \in Typed(env) :
          /\ Lower(i) # <<"exit">>
          /\ Lower(i) = <<"clear">>
          /\ user_input' = i
    /\ last' = "cleared"
    /\ event' = "typed"
    /\ UNCHANGED <<conversation_history, pc, context, full_response, gpc,
                   full_prompt, nreq, connected, received, yielded>>

(* Lines 187-190: the clear command. *)
ReadClear(env) ==
    /\ pc = "input"
    /\ \E i \in Typed(env) :
          /\ Lower(i) # <<"exit">>
          /\ Lower(i) = <<"clear">>
          /\ user_input' = i
    /\ conversation_history' = <<>>
    /\ last' = "cleared"
    /\ event' = "typed"
    /\ UNCHANGED <<pc, context, full_response, gpc, full_prompt, nreq,
                   connected, received, yielded>>

(* Lines 192-201: any other input is a prompt; the context is built and    *)
(* the generator object is created (its body has not started yet).         *)
ReadPrompt(env) ==
    /\ pc = "input"
    /\ nreq < env.maxReq
    /\ \E i \in Typed(env) :
          /\ Lower(i) # <<"exit">>
          /\ Lower(i) # <<"clear">>
          /\ user_input' = i
    /\ context' = BuildContext(conversation_history)
    /\ full_response' = <<>>
    /\ pc' = "stream"
    /\ gpc' = "start"
    /\ last' = "assistant"
    /\ event' = "typed"
    /\ UNCHANGED <<conversation_history, full_prompt, nreq, connected,
                   received, yielded>>

(* input() raising with no "except Exception" around it. *)
InputFailsBreaks ==
    /\ pc = "input"
    /\ pc' = "done"
    /\ last' = "traceback"
    /\ event' = "eof"
    /\ UNCHANGED <<conversation_history, user_input, context, full_response,
                   gpc, full_prompt, nreq, connected, received, yielded>>

(* input() raises (EOFError): caught by "except Exception" (216-217). *)
InputFails ==
    /\ pc = "input"
    /\ last' = "error"
    /\ event' = "eof"
    /\ UNCHANGED <<conversation_history, pc, user_input, context,
                   full_response, gpc, full_prompt, nreq, connected, received,
                   yielded>>

(* KeyboardInterrupt handled like the end of the stream: the partial reply *)
(* is stored and the loop goes on.                                         *)
InterruptRecords ==
    /\ pc \in {"input", "stream"}
    /\ IF pc = "stream"
       THEN /\ conversation_history' =
                  Append(conversation_history,
                         [human |-> user_input, assistant |-> full_response])
            /\ pc' = "input"
            /\ Discard
       ELSE /\ pc' = "done"
            /\ UNCHANGED <<conversation_history, genvars>>
    /\ last' = "goodbye"
    /\ event' = "interrupt"
    /\ UNCHANGED <<user_input, context, full_response, nreq>>

(* KeyboardInterrupt, at input() or while the reply streams: it is not an  *)
(* Exception, so generate_text lets it through; lines 213-215 break.       *)
Interrupt ==
    /\ pc \in {"input", "stream"}
    /\ pc' = "done"
    /\ IF pc = "stream" THEN Discard ELSE UNCHANGED genvars
    /\ last' = "goodbye"
    /\ event' = "interrupt"
    /\ UNCHANGED <<conversation_history, user_input, context, full_response,
                   nreq>>

----------------------------------------------------------------------------
(* generate_text, driven by the for loop of line 201 *)

(* Lines 49-55 with data["response"] read without the test of line 52:    *)
(* a JSON object without "response" raises KeyError.                       *)
LineOutcomeNoTest(l) ==
    IF l.kind = "empty" THEN "skip"
    ELSE IF l.kind = "badjson" THEN "skip"
    ELSE IF l.kind \in {"resp", "respnum"} THEN "yield"
    ELSE "raise"

(* What lines 49-55 do with one line of iter_lines(): "skip" (no chunk,    *)
(* the for loop goes on), "yield" (line 53) or "raise" (an exception that  *)
(* the inner handler does not catch and that reaches line 59).             *)
LineOutcome(l) ==
    IF l.kind = "empty" THEN "skip"                       \* if line:
    ELSE IF l.kind = "badjson" THEN "skip"                \* lines 54-55
    ELSE IF l.kind = "badutf8" THEN "raise"               \* json.loads, 51
    ELSE IF l.kind = "scalar" THEN "raise"                \* "in", line 52
    ELSE IF l.kind \in {"resp", "respnum"} THEN "yield"   \* lines 52-53
    ELSE "skip"                                           \* no "response"

RECURSIVE GenOutput(_)
(* The chunks lines 48-60 yield for a stream of lines that the backend     *)
(* closes after the last one: the except clause of line 59 ends the for    *)
(* loop with one chunk.                                                    *)
GenOutput(lines) ==
    IF lines = <<>> THEN <<>>
    ELSE CASE LineOutcome(Head(lines)) = "skip" -> GenOutput(Tail(lines))
           [] LineOutcome(Head(lines)) = "yield" ->
                <<Head(lines).text>> \o GenOutput(Tail(lines))
           [] LineOutcome(Head(lines)) = "raise" -> <<DiagErr>>

(* Lines 208-211, after the for loop of line 201 has ended. *)
RecordTurn(history, human, assistant) ==
    Append(history, [human |-> human, assistant |-> assistant])

(* Line 203 written as full_response = chunk + full_response. *)
YieldPrepends(chunk, g, fp, conn, rec) ==
    IF IsStr(chunk)
    THEN /\ full_response' = chunk \o full_response
         /\ gpc' = g
         /\ full_prompt' = fp
         /\ connected' = conn
         /\ received' = rec
         /\ yielded' = Append(yielded, chunk)
         /\ UNCHANGED <<pc, last>>
    ELSE /\ pc' = "input"
         /\ last' = "error"
         /\ Discard
         /\ UNCHANGED full_response

(* The generator yields chunk and is left suspended at position g with     *)
(* locals fp, conn, rec; lines 202-203 run on the chunk.  A chunk that is  *)
(* no str makes line 203 raise TypeError, which "except Exception"         *)
(* (216-217) reports: the iteration is abandoned, the generator dropped,   *)
(* and the loop reads the next input.                                      *)
Yield(chunk, g, fp, conn, rec) ==
    IF IsStr(chunk)
    THEN /\ full_response' = full_response \o chunk
         /\ gpc' = g
         /\ full_prompt' = fp
         /\ connected' = conn
         /\ received' = rec
         /\ yielded' = Append(yielded, chunk)
         /\ UNCHANGED <<pc, last>>
    ELSE /\ pc' = "input"
         /\ last' = "error"
         /\ Discard
         /\ UNCHANGED full_response

(* The generator returns: the for loop of line 201 ends (StopIteration)    *)
(* and lines 205-211 record the turn.                                      *)
FinishTurn ==
    /\ conversation_history' =
          RecordTurn(conversation_history, user_input, full_response)
    /\ pc' = "input"
    /\ last' = "reply"
    /\ Discard

(* Lines 32-46: the request is sent and the backend answers. *)
PostOk ==
    /\ pc = "stream" /\ gpc = "start"
    /\ full_prompt' = FullPrompt(user_input, context)
    /\ nreq' = nreq + 1
    /\ connected' = TRUE
    /\ gpc' = "open"
    /\ event' = "answered"
    /\ UNCHANGED <<conversation_history, pc, user_input, context,
                   full_response, received, yielded, last>>

(* The ConnectionError handler with line 57 as its only yield. *)
PostFailsConnOneChunk ==
    /\ pc = "stream" /\ gpc = "start"
    /\ nreq' = nreq + 1
    /\ Yield(DiagConn1, "diag2", FullPrompt(user_input, context), FALSE,
             received)
    /\ event' = "unreachable"
    /\ UNCHANGED <<conversation_history, user_input, context>>

(* Lines 35, 56-57: requests.post raises ConnectionError. *)
PostFailsConn ==
    /\ pc = "stream" /\ gpc = "start"
    /\ nreq' = nreq + 1
    /\ Yield(DiagConn1, "diag1", FullPrompt(user_input, context), FALSE,
             received)
    /\ event' = "unreachable"
    /\ UNCHANGED <<conversation_history, user_input, context>>

(* Lines 35, 59-60: requests.post raises another Exception. *)
PostFailsOther ==
    /\ pc = "stream" /\ gpc = "start"
    /\ nreq' = nreq + 1
    /\ Yield(DiagErr, "diagE", FullPrompt(user_input, context), FALSE,
             received)
    /\ event' = "posterror"
    /\ UNCHANGED <<conversation_history, user_input, context>>

(* Lines 48-55: iter_lines() hands over one more line. *)
RecvLine(env) ==
    /\ pc = "stream" /\ gpc = "open"
    /\ Len(received) < env.maxLines
    /\ \E l \in env.lines :
          LET rec == Append(received, l)
          IN  CASE LineOutcome(l) = "skip" ->
                     /\ received' = rec
                     /\ UNCHANGED <<pc, gpc, full_prompt, connected,
                                    full_response, yielded, last>>
                [] LineOutcome(l) = "yield" ->
                     Yield(l.text, "open", full_prompt, connected, rec)
                [] LineOutcome(l) = "raise" ->
                     Yield(DiagErr, "diagE", full_prompt, connected, rec)
    /\ event' = "line"
    /\ UNCHANGED <<conversation_history, user_input, context, nreq>>

(* Lines 48, 56-57: iter_lines() raises ConnectionError mid-stream. *)
StreamFailsConn ==
    /\ pc = "stream" /\ gpc = "open"
    /\ Yield(DiagConn1, "diag1", full_prompt, connected, received)
    /\ event' = "dropped"
    /\ UNCHANGED <<conversation_history, user_input, context, nreq>>

(* generate_text without the handler of lines 59-60: the exception        *)
(* reaches the loop, whose "except Exception" reports it.                  *)
StreamFailsOtherPropagates ==
    /\ pc = "stream" /\ gpc = "open"
    /\ pc' = "input"
    /\ last' = "error"
    /\ Discard
    /\ event' = "streamerror"
    /\ UNCHANGED <<conversation_history, user_input, context, full_response,
                   nreq>>

(* Lines 48, 59-60: iter_lines() raises another Exception mid-stream. *)
StreamFailsOther ==
    /\ pc = "stream" /\ gpc = "open"
    /\ Yield(DiagErr, "diagE", full_prompt, connected, received)
    /\ event' = "streamerror"
    /\ UNCHANGED <<conversation_history, user_input, context, nreq>>

(* Line 58: the generator, resumed after line 57, yields the second chunk. *)
ResumeDiag ==
    /\ pc = "stream" /\ gpc = "diag1"
    /\ Yield(DiagConn2, "diag2", full_prompt, connected, received)
    /\ event' = "resumed"
    /\ UNCHANGED <<conversation_history, user_input, context, nreq>>

(* The backend closes the stream: the for loop of line 48 ends, the        *)
(* generator returns, and the loop records the turn.                       *)
StreamEnds ==
    /\ pc = "stream" /\ gpc = "open"
    /\ FinishTurn
    /\ event' = "closed"
    /\ UNCHANGED <<user_input, context, full_response, nreq>>

(* The generator, resumed after line 58 or line 60, returns. *)
DiagEnds ==
    /\ pc = "stream" /\ gpc \in {"diag2", "diagE"}
    /\ FinishTurn
    /\ event' = "resumed"
    /\ UNCHANGED <<user_input, context, full_response, nreq>>

----------------------------------------------------------------------------
Next ==
    \/ ReadExit(Env)
    \/ ReadClear(Env)
    \/ ReadPrompt(Env)
    \/ InputFails
    \/ Interrupt
    \/ PostOk
    \/ PostFailsConn
    \/ PostFailsOther
    \/ RecvLine(Env)
    \/ StreamFailsConn
    \/ StreamFailsOther
    \/ ResumeDiag
    \/ StreamEnds
    \/ DiagEnds

Spec == Init /\ [][Next]_vars

(* A long session against a backend that is up and answers each request    *)
(* with at most one record.                                                *)
NextCtx ==
    \/ ReadExit(CtxEnv)
    \/ ReadClear(CtxEnv)
    \/ ReadPrompt(CtxEnv)
    \/ InputFails
    \/ Interrupt
    \/ PostOk
    \/ RecvLine(CtxEnv)
    \/ StreamEnds

SpecCtx == Init /\ [][NextCtx]_vars

----------------------------------------------------------------------------
(* Properties *)

RECURSIVE Concat(_)
(* The texts of a sequence, one after the other. *)
Concat(parts) ==
    IF parts = <<>> THEN <<>> ELSE Head(parts) \o Concat(Tail(parts))

RemoveAt(s, i) == SubSeq(s, 1, i - 1) \o SubSeq(s, i + 1, Len(s))

RECURSIVE TurnsText(_, _, _)
(* Turns lo..hi of h as 'Human: <input>\nAssistant: <reply>' blocks with a *)
(* newline between two blocks, oldest first.                               *)
TurnsText(h, lo, hi) ==
    IF lo > hi THEN <<>>
    ELSE (IF lo < hi THEN TurnsText(h, lo, hi - 1) \o <<"\n">> ELSE <<>>)
         \o <<"Human: ">> \o h[hi].human
         \o <<"\nAssistant: ">> \o h[hi].assistant

Occurrences(s, tok) == Cardinality({i \in DOMAIN s : s[i] = tok})

(* The generator returns and the for loop of line 201 ends: the turn is    *)
(* complete.  (A step, not a state.)                                       *)
TurnCompletes ==
    /\ pc = "stream" /\ gpc # "closed" /\ gpc' = "closed"
    /\ event' \in {"closed", "resumed"}

(* C1: whenever a prompt is being answered, the context built for it holds *)
(* exactly min(N, 5) turns of the N stored ones: the N most recent (the    *)
(* last 5 when N > 5), as 'Human: ..\nAssistant: ..' blocks joined by      *)
(* newlines, oldest first and newest last; no older turn is in it.         *)
C1_ContextIsLastFive ==
    pc = "stream" =>
        LET n == Len(conversation_history)
            k == Min(n, 5)
        IN  /\ context = TurnsText(conversation_history, n - k + 1, n)
            /\ Occurrences(context, "Human: ") = k
            /\ Occurrences(context, "\nAssistant: ") = k

(* Seven turns are stored, the oldest is the only one whose input is "b",  *)
(* and the context built for the eighth prompt holds no "b".               *)
C1_Witness ==
    /\ pc = "stream"
    /\ Len(conversation_history) = 7
    /\ conversation_history[1].human = <<"b">>
    /\ \A i \in 2..7 : conversation_history[i].human = <<"a">>
    /\ Occurrences(context, "b") = 0
    /\ Occurrences(context, "Human: ") = 5

(* C2: a loop iteration whose generation failed on the transport (the      *)
(* request or the stream raised, no line did) leaves the history as it was *)
(* before the iteration.                                                   *)
C2_FailedTurnNotRecorded ==
    [][ ( /\ pc = "stream" /\ pc' = "input"
          /\ gpc \in {"diag1", "diag2", "diagE"}
          /\ \A i \in DOMAIN received : LineOutcome(received[i]) # "raise" )
        => conversation_history' = conversation_history ]_vars

C4_MalformedLineSkipped ==
    (pc = "stream" /\ gpc \in {"open", "diagE"} /\ event \in {"answered", "line"})
    => \A i \in DOMAIN received :
          received[i].kind \in {"badjson", "badutf8"}
          => yielded = GenOutput(RemoveAt(received, i))

(* C5: KeyboardInterrupt while a reply streams ends the loop at once: no   *)
(* turn is stored, no request is sent, and nothing happens afterwards.     *)
C5_InterruptEndsLoop ==
    [][ /\ pc # "done"
        /\ (pc = "stream" /\ event' = "interrupt")
           => ( /\ pc' = "done"
                /\ conversation_history' = conversation_history
                /\ nreq' = nreq ) ]_vars

(* The loop was interrupted after the chunk "x" of its first reply, and    *)
(* the history is empty.                                                   *)
C5_Witness ==
    /\ pc = "done" /\ event = "interrupt"
    /\ full_response = <<"x">>
    /\ nreq = 1
    /\ conversation_history = <<>>

(* C6: when a turn completes, exactly one turn is appended at the end of   *)
(* the history, the stored turns being unchanged; its human is the input   *)
(* typed and its assistant the concatenation, in yield order, of the       *)
(* chunks that generate_text call yielded.                                 *)
C6_TurnIsConcatenation ==
    [][ TurnCompletes
        => conversation_history' =
             Append(conversation_history,
                    [human |-> user_input, assistant |-> Concat(yielded)]) ]_vars

(* A second turn was stored whose reply came in the chunks "x" then "y". *)
C6_Witness ==
    /\ pc = "input" /\ last = "reply"
    /\ Len(conversation_history) = 2
    /\ conversation_history[2] = [human |-> <<"a">>, assistant |-> <<"x", "y">>]

(* C7: the clear command empties the history, sends no request and stores  *)
(* no turn; with an empty history the context of the next prompt is empty  *)
(* and the prompt is sent as typed.                                        *)
C7_ClearEmptiesContext ==
    /\ [][ (pc = "input" /\ event' = "typed" /\ Lower(user_input') = <<"clear">>)
           => ( /\ conversation_history' = <<>>
                /\ nreq' = nreq
                /\ pc' = "input" ) ]_vars
    /\ []( (pc = "stream" /\ conversation_history = <<>>)
           => ( /\ context = <<>>
                /\ gpc # "start" => full_prompt = user_input ) )

(* "Clear" was typed after a stored turn whose reply was "x" "y". *)
C7_Witness ==
    /\ pc = "input" /\ last = "cleared" /\ user_input = <<"Clear">>
    /\ full_response = <<"x", "y">>
    /\ nreq = 1
    /\ conversation_history = <<>>

(* A request or a stream that raised, or a line that made the generator    *)
(* raise.  (A step.)                                                       *)
BackendFailure ==
    \/ event' \in {"unreachable", "posterror", "dropped", "streamerror"}
    \/ /\ event' = "line"
       /\ \E l \in Lines : LineOutcome(l) = "raise" /\ received' = Append(received, l)

(* C8: a failure of the request or of the stream that is not an interrupt  *)
(* never reaches the loop: a diagnostic chunk is yielded after the chunks  *)
(* already yielded, the generator then returns normally (after the second  *)
(* chunk of the ConnectionError handler), and the loop reads on.           *)
C8_FailureBecomesChunk ==
    /\ [][ (pc = "stream" /\ BackendFailure)
           => ( /\ pc' = "stream"
                /\ \E d \in {DiagConn1, DiagErr} :
                      /\ yielded' = Append(yielded, d)
                      /\ full_response' = full_response \o d
                /\ gpc' \in {"diag1", "diagE"} ) ]_vars
    /\ [][ (gpc = "diag1" /\ event' # "interrupt")
           => ( /\ pc' = "stream" /\ gpc' = "diag2"
                /\ yielded' = Append(yielded, DiagConn2) ) ]_vars
    /\ [][ (gpc \in {"diag2", "diagE"} /\ event' # "interrupt")
           => (TurnCompletes /\ pc' = "input" /\ last' = "reply") ]_vars

(* The stream broke after the chunk "x": the diagnostic follows it. *)
C8_Witness ==
    /\ pc = "stream" /\ gpc = "diagE" /\ event = "streamerror"
    /\ yielded = << <<"x">>, DiagErr >>
    /\ full_response = <<"x">> \o DiagErr

C10_OnlyExitOrInterrupt ==
    [][ /\ (pc # "done" /\ pc' = "done")
           => \/ event' = "interrupt"
              \/ event' = "typed" /\ Lower(user_input') = <<"exit">>
        /\ (event' = "typed" /\ Lower(user_input') = <<"exit">>) => pc' = "done"
        /\ (event' = "eof" \/ (event' = "line" /\ gpc' = "closed"))
           => ( /\ pc' = "input"
                /\ last' = "error"
                /\ conversation_history' = conversation_history ) ]_vars

(* input() raised after a turn was stored: the turn is still there and the *)
(* loop is reading again.                                                  *)
C10_Witness ==
    /\ pc = "input" /\ event = "eof" /\ last = "error"
    /\ Len(conversation_history) = 1

====
